---------------------------- MODULE Spec2Model ----------------------------
(***************************************************************************)
(* Smart Traffic Signal Control System (src/.c): a 4-lane intersection,    *)
(* a green time that grows with the queue, a per-second simulation of one  *)
(* cycle, random arrivals between cycles and a statistics record appended  *)
(* to a file.                                                              *)
(*                                                                         *)
(* Spec      : the driver main() with run_one_cycle unfolded tick by tick. *)
(* GreenSpec : calculate_green_time applied to pairs of int inputs.        *)
(***************************************************************************)
EXTENDS Integers, Sequences, FiniteSets, TLC

(***************************************************************************)
(* Program constants.                                                      *)
(***************************************************************************)
LANES == 4
MAX_GREEN == 40
BASE_GREEN == 5
VEHICLE_PASS_PER_SEC == 1
ARRIVAL_MOD == 4
INT_MAX == 2147483647
INT_MIN == -INT_MAX - 1

(***************************************************************************)
(* Bounds of the model.                                                    *)
(***************************************************************************)
MaxInit == 0      \* largest initial vehicle count typed per lane, the scenarios apart
MaxCycles == 1    \* largest cycle count typed
MaxW == 22        \* calculate_green_time is probed on -MaxW..MaxW and at the int limits

LaneIdx == 0..(LANES - 1)

VARIABLES
    pc,             \* position of main(): "input", "read_cycles", "loop",
                    \* "phase", "tick", "arrive", "stats", "exit", or "probe"
    lanes,          \* it->lanes : [LaneIdx -> Lane]
    cycles,         \* it->cycles
    cycles_to_run,  \* main's cycles_to_run
    c,              \* main's loop counter
    lane_idx,       \* run_one_cycle's lane_idx
    green,          \* run_one_cycle's green
    sec,            \* run_one_cycle's sec
    exit_status,    \* "none" while running, then "EXIT_SUCCESS" or "EXIT_FAILURE"
    stats_file,     \* records appended to traffic_stats.txt by this process
    cycles_input,   \* history: what the scanf of the cycle count met
    phases,         \* history: lanes given green so far in the current run_one_cycle
    idle_depth,     \* history: per lane, sum of its queue depth over the ticks it was not green
    calls,          \* history: number of calls of run_one_cycle and random_arrival_between_cycles
    seeded,         \* history: the lane counts stored by input_vehicle_counts
    arrived,        \* history: per lane, the arrivals injected so far
    typed,          \* history: the answers to input_vehicle_counts' prompts, until the
                    \* cycle count is read
    log_opened,     \* history: "none", then whether save_statistics' fopen "opened" or "failed"
    ticks,          \* history: seconds simulated by the current (or last) run_one_cycle
    w1, w2,         \* GreenSpec: the two arguments
    g1, g2,         \* GreenSpec: the two results
    called          \* GreenSpec: whether calculate_green_time has been applied

vars == <<pc, lanes, cycles, cycles_to_run, c, lane_idx, green, sec, exit_status,
          stats_file, cycles_input, phases, idle_depth, calls, seeded, arrived,
          typed, log_opened, ticks, w1, w2, g1, g2, called>>

driver_vars == <<pc, lanes, cycles, cycles_to_run, c, lane_idx, green, sec, exit_status,
                 stats_file, cycles_input, phases, idle_depth, calls, seeded, arrived,
                 typed, log_opened, ticks>>

probe_vars == <<w1, w2, g1, g2, called>>

(***************************************************************************)
(* int arithmetic of calculate_green_time.  A signed overflow is undefined *)
(* behaviour: the build either wraps modulo 2^32 or has been compiled on   *)
(* the assumption that it does not happen.                                 *)
(***************************************************************************)
MulOverflows(a) == a > INT_MAX \div 2 \/ a < -(INT_MAX \div 2) - 1

\* 2 * a reduced modulo 2^32 into INT_MIN..INT_MAX
WrapTwice(a) ==
    IF a > INT_MAX \div 2 THEN 2 * ((a - INT_MAX) - 1)
    ELSE IF a < -(INT_MAX \div 2) - 1 THEN 2 * ((a + INT_MAX) + 1)
    ELSE 2 * a

AddOverflows(a, b) == b > 0 /\ a > INT_MAX - b

\* a + b reduced modulo 2^32 into INT_MIN..INT_MAX, for b > 0
WrapAdd(a, b) ==
    IF AddOverflows(a, b) THEN INT_MIN + ((a - INT_MAX) + (b - 1))
    ELSE a + b


(***************************************************************************)
(* calculate_green_time: the set of values the call can return.  Without   *)
(* overflow it is the single value t capped at MAX_GREEN; there is no      *)
(* lower clamp in the function.  With overflow the wrapping build compares *)
(* the wrapped t, the other build has folded t > MAX_GREEN into a test on  *)
(* vehicles_waiting and returns the wrapped t when that test fails.        *)
(***************************************************************************)
\* Mutant: one second per waiting vehicle instead of two.
calculate_green_time_OnePerVehicle(vehicles_waiting) ==
    LET t == BASE_GREEN + vehicles_waiting
    IN  {IF t > MAX_GREEN THEN MAX_GREEN ELSE t}

\* Mutant: the result is not capped at MAX_GREEN.
calculate_green_time_NoCap(vehicles_waiting) ==
    {WrapAdd(WrapTwice(vehicles_waiting), BASE_GREEN)}

calculate_green_time(vehicles_waiting) ==
    LET twice == WrapTwice(vehicles_waiting)
        t == WrapAdd(twice, BASE_GREEN)
        overflow == MulOverflows(vehicles_waiting) \/ AddOverflows(twice, BASE_GREEN)
        wrapping == IF t > MAX_GREEN THEN MAX_GREEN ELSE t
        folded == IF vehicles_waiting > (MAX_GREEN - BASE_GREEN) \div 2
                  THEN MAX_GREEN ELSE t
    IN  IF overflow THEN {wrapping, folded} ELSE {wrapping}

(***************************************************************************)
(* create_intersection: the lanes and the cycle count of a new             *)
(* intersection.                                                           *)
(***************************************************************************)
create_intersection ==
    [lanes |-> [i \in LaneIdx |->
                   [vehicles |-> 0, total_wait_secs |-> 0, vehicles_served |-> 0]],
     cycles |-> 0]

(***************************************************************************)
(* What one scanf("%d", &v) can meet: a parsed int, or no match.           *)
(***************************************************************************)
ScanInputs(S) == {[ok |-> TRUE, val |-> v] : v \in S} \cup {[ok |-> FALSE, val |-> 0]}

\* The lane counts of the specification's worked scenario.
Scenario == <<2, 0, 5, 1>>

\* Lane counts with one lane above MAX_GREEN: its green is capped and does not empty it.
Congested == <<45, 1, 0, 2>>

\* Lane counts at the edge of the cap: 40 is the most one green can drain, 18 the
\* first count whose green is capped, 17 the last whose green is not.
Saturated == <<40, 18, 17, 3>>

Typed(counts) == [i \in LaneIdx |-> [ok |-> TRUE, val |-> counts[i + 1]]]

VehicleInputs ==
    [LaneIdx -> ScanInputs(-1..MaxInit)]
    \cup {Typed(Scenario), Typed(Congested), Typed(Saturated)}

CycleInputs == ScanInputs(-1..MaxCycles)

\* Mutant: the draw is rand() % 5.
Arrivals_UpToFour == [LaneIdx -> 0..ARRIVAL_MOD]

Arrivals == [LaneIdx -> 0..(ARRIVAL_MOD - 1)]

(***************************************************************************)
(* input_vehicle_counts, lines 143-144: a negative count is stored as 0.   *)
(***************************************************************************)
\* Mutant: a negative count is stored as typed.
StoreCount_NoClamp(lane, v) == [lane EXCEPT !.vehicles = v]

StoreCount(lane, v) == [lane EXCEPT !.vehicles = IF v < 0 THEN 0 ELSE v]

\* The lanes after the first n prompts of input_vehicle_counts were answered by inp.
SeedLanes(ls, inp, n) ==
    [i \in LaneIdx |-> IF i < n THEN StoreCount(ls[i], inp[i].val) ELSE ls[i]]

\* Index of the first prompt whose scanf fails, LANES when none does.
FirstBad(inp) ==
    IF \E i \in LaneIdx : ~inp[i].ok
    THEN CHOOSE i \in LaneIdx : ~inp[i].ok /\ \A j \in LaneIdx : j < i => inp[j].ok
    ELSE LANES

(***************************************************************************)
(* run_one_cycle, lines 82-86: the green lane lets one vehicle pass.       *)
(***************************************************************************)
\* Mutant: the test vehicles > 0 and the clamp are missing.
PassVehicle_NoGuard(lane) ==
    [lane EXCEPT !.vehicles = @ - VEHICLE_PASS_PER_SEC,
                 !.vehicles_served = @ + VEHICLE_PASS_PER_SEC]

\* Mutant: a vehicle that passes is not counted as served.
PassVehicle_Uncounted(lane) ==
    IF lane.vehicles > 0
    THEN [lane EXCEPT !.vehicles = @ - VEHICLE_PASS_PER_SEC]
    ELSE lane

\* Mutant: vehicles_served counts every second of green.
PassVehicle_CountsIdle(lane) ==
    IF lane.vehicles > 0
    THEN [lane EXCEPT !.vehicles = @ - VEHICLE_PASS_PER_SEC,
                      !.vehicles_served = @ + VEHICLE_PASS_PER_SEC]
    ELSE [lane EXCEPT !.vehicles_served = @ + VEHICLE_PASS_PER_SEC]

PassVehicle(lane) ==
    IF lane.vehicles > 0
    THEN LET left == lane.vehicles - VEHICLE_PASS_PER_SEC
         IN  [lane EXCEPT !.vehicles = IF left < 0 THEN 0 ELSE left,
                          !.vehicles_served = @ + VEHICLE_PASS_PER_SEC]
    ELSE lane

(***************************************************************************)
(* run_one_cycle, lines 90-93: a lane that is not green accrues its queue  *)
(* depth.                                                                  *)
(***************************************************************************)
\* Mutant: the wait of a lane is restarted when its queue is empty.
AccrueWait_ResetWhenEmpty(lane) ==
    IF lane.vehicles > 0
    THEN [lane EXCEPT !.total_wait_secs = @ + lane.vehicles]
    ELSE [lane EXCEPT !.total_wait_secs = 0]

\* Mutant: one second per tick whatever the queue depth.
AccrueWait_OnePerTick(lane) ==
    IF lane.vehicles > 0
    THEN [lane EXCEPT !.total_wait_secs = @ + 1]
    ELSE lane

AccrueWait(lane) ==
    IF lane.vehicles > 0
    THEN [lane EXCEPT !.total_wait_secs = @ + lane.vehicles]
    ELSE lane

(***************************************************************************)
(* run_one_cycle, lines 81-94: one second of green for lane i.             *)
(***************************************************************************)
\* Mutant: every lane passes a vehicle each second, whichever is green.
TickLanes_AllPass(ls, i) ==
    [j \in LaneIdx |-> IF j = i THEN PassVehicle(ls[j])
                       ELSE AccrueWait(PassVehicle(ls[j]))]

TickLanes(ls, i) ==
    [j \in LaneIdx |-> IF j = i THEN PassVehicle(ls[j]) ELSE AccrueWait(ls[j])]

(***************************************************************************)
(* run_one_cycle, line 77: the defensive lower clamp of green.             *)
(***************************************************************************)
ClampGreen(g) == IF g < BASE_GREEN THEN BASE_GREEN ELSE g

(***************************************************************************)
(* random_arrival_between_cycles: lane i receives a[i] = rand() % 4.       *)
(***************************************************************************)
\* Mutant: one draw is shared by the four lanes.
AddArrivals_SharedDraw(ls, a) ==
    [i \in LaneIdx |-> [ls[i] EXCEPT !.vehicles = @ + a[0]]]

AddArrivals(ls, a) ==
    [i \in LaneIdx |-> [ls[i] EXCEPT !.vehicles = @ + a[i]]]

(***************************************************************************)
(* save_statistics, lines 118-128: the record written.  The average is     *)
(* kept as the fraction total_wait_secs / total_served (0/1 when nothing   *)
(* was served).                                                            *)
(***************************************************************************)
RECURSIVE SumField(_, _, _)
SumField(ls, f, n) == IF n = 0 THEN 0 ELSE SumField(ls, f, n - 1) + ls[n - 1][f]

\* Mutant: the served total leaves out the last lane.
StatsRecord_SkipsLastLane(ls, cyc) ==
    LET total_served == SumField(ls, "vehicles_served", LANES - 1)
        total_wait_secs == SumField(ls, "total_wait_secs", LANES)
    IN  [cycles |-> cyc,
         total_served |-> total_served,
         total_wait_secs |-> total_wait_secs,
         avg_wait_per_vehicle |-> IF total_served > 0
                                  THEN <<total_wait_secs, total_served>>
                                  ELSE <<0, 1>>]

StatsRecord(ls, cyc) ==
    LET total_served == SumField(ls, "vehicles_served", LANES)
        total_wait_secs == SumField(ls, "total_wait_secs", LANES)
    IN  [cycles |-> cyc,
         total_served |-> total_served,
         total_wait_secs |-> total_wait_secs,
         avg_wait_per_vehicle |-> IF total_served > 0
                                  THEN <<total_wait_secs, total_served>>
                                  ELSE <<0, 1>>]

(***************************************************************************)
(* The driver.  Init is main() after create_intersection: either both      *)
(* allocations succeeded, or one failed and the process has exited with    *)
(* EXIT_FAILURE.                                                           *)
(***************************************************************************)
NoCalls == [run_one_cycle |-> 0, random_arrival_between_cycles |-> 0]

\* No answer of input_vehicle_counts is on record.
NoInput == [i \in LaneIdx |-> [ok |-> FALSE, val |-> 0]]

DriverStart(allocated) ==
    /\ pc = IF allocated THEN "input" ELSE "exit"
    /\ exit_status = IF allocated THEN "none" ELSE "EXIT_FAILURE"
    /\ lanes = create_intersection.lanes
    /\ cycles = create_intersection.cycles
    /\ cycles_to_run = 0
    /\ c = 0
    /\ lane_idx = 0
    /\ green = 0
    /\ sec = 0
    /\ stats_file = <<>>
    /\ cycles_input = "none"
    /\ phases = <<>>
    /\ idle_depth = [i \in LaneIdx |-> 0]
    /\ calls = NoCalls
    /\ seeded = [i \in LaneIdx |-> 0]
    /\ arrived = [i \in LaneIdx |-> 0]
    /\ typed = NoInput
    /\ log_opened = "none"
    /\ ticks = 0

ProbeIdle == w1 = 0 /\ w2 = 0 /\ g1 = 0 /\ g2 = 0 /\ called = FALSE

Init == (\E allocated \in BOOLEAN : DriverStart(allocated)) /\ ProbeIdle

\* Mutant: a cycle count of 0 is accepted.
CyclesRejected_NegativeOnly(inp) == ~inp.ok \/ inp.val < 0

\* main, line 166: the test that rejects the cycle count.
CyclesRejected(inp) == ~inp.ok \/ inp.val <= 0

\* input_vehicle_counts: four prompts; the first scanf that fails exits the process.
InputStep(inp) ==
    /\ LET n == FirstBad(inp) IN
          /\ lanes' = SeedLanes(lanes, inp, n)
          /\ seeded' = [i \in LaneIdx |-> lanes'[i].vehicles]
          /\ typed' = inp
          /\ IF n < LANES
             THEN pc' = "exit" /\ exit_status' = "EXIT_FAILURE"
             ELSE pc' = "read_cycles" /\ UNCHANGED exit_status
    /\ UNCHANGED <<cycles, cycles_to_run, c, lane_idx, green, sec, stats_file,
                   cycles_input, phases, idle_depth, calls, arrived,
                   log_opened, ticks>>
    /\ UNCHANGED probe_vars

input_vehicle_counts ==
    /\ pc = "input"
    /\ \E inp \in VehicleInputs : InputStep(inp)

\* main, lines 164-172: the cycle count is read and validated; a valid one
\* starts the loop at c = 0.
read_cycles ==
    /\ pc = "read_cycles"
    /\ \E inp \in CycleInputs :
          /\ cycles_to_run' = IF inp.ok THEN inp.val ELSE cycles_to_run
          /\ typed' = NoInput
          /\ cycles_input' = IF ~inp.ok THEN "unparsed"
                             ELSE IF inp.val <= 0 THEN "nonpositive" ELSE "valid"
          /\ IF CyclesRejected(inp)
             THEN pc' = "exit" /\ exit_status' = "EXIT_FAILURE" /\ UNCHANGED c
             ELSE pc' = "loop" /\ c' = 0 /\ UNCHANGED exit_status
    /\ UNCHANGED <<lanes, cycles, lane_idx, green, sec, stats_file,
                   phases, idle_depth, calls, seeded, arrived,
                   log_opened, ticks>>
    /\ UNCHANGED probe_vars

\* Mutant: the loop test is c <= cycles_to_run.
loop_test_OneMore ==
    /\ pc = "loop"
    /\ IF c <= cycles_to_run
       THEN /\ pc' = "phase"
            /\ lane_idx' = 0
            /\ phases' = <<>>
            /\ calls' = [calls EXCEPT !.run_one_cycle = @ + 1]
            /\ ticks' = 0
       ELSE /\ pc' = "stats"
            /\ UNCHANGED <<lane_idx, phases, calls, ticks>>
    /\ UNCHANGED <<lanes, cycles, cycles_to_run, c, green, sec, exit_status,
                   stats_file, cycles_input, idle_depth, seeded, arrived,
                   typed, log_opened>>
    /\ UNCHANGED probe_vars

\* main, lines 172-175: the loop test; a further cycle calls run_one_cycle.
loop_test ==
    /\ pc = "loop"
    /\ IF c < cycles_to_run
       THEN /\ pc' = "phase"
            /\ lane_idx' = 0
            /\ phases' = <<>>
            /\ calls' = [calls EXCEPT !.run_one_cycle = @ + 1]
            /\ ticks' = 0
       ELSE /\ pc' = "stats"
            /\ UNCHANGED <<lane_idx, phases, calls, ticks>>
    /\ UNCHANGED <<lanes, cycles, cycles_to_run, c, green, sec, exit_status,
                   stats_file, cycles_input, idle_depth, seeded, arrived,
                   typed, log_opened>>
    /\ UNCHANGED probe_vars

\* run_one_cycle, lines 74-80: the green time of lane lane_idx is fixed for its phase.
begin_phase ==
    /\ pc = "phase"
    /\ lane_idx < LANES
    /\ \E g \in calculate_green_time(lanes[lane_idx].vehicles) :
          green' = ClampGreen(g)
    /\ sec' = 0
    /\ phases' = Append(phases, lane_idx)
    /\ pc' = "tick"
    /\ UNCHANGED <<lanes, cycles, cycles_to_run, c, lane_idx, exit_status,
                   stats_file, cycles_input, idle_depth, calls, seeded, arrived,
                   typed, log_opened, ticks>>
    /\ UNCHANGED probe_vars

\* run_one_cycle, lines 80-95: one second of lane lane_idx's green.
tick ==
    /\ pc = "tick"
    /\ sec < green
    /\ lanes' = TickLanes(lanes, lane_idx)
    /\ sec' = sec + 1
    /\ ticks' = ticks + 1
    /\ idle_depth' = [j \in LaneIdx |->
                         IF j = lane_idx THEN idle_depth[j]
                         ELSE idle_depth[j] + lanes[j].vehicles]
    /\ UNCHANGED <<pc, cycles, cycles_to_run, c, lane_idx, green, exit_status,
                   stats_file, cycles_input, phases, calls, seeded, arrived,
                   typed, log_opened>>
    /\ UNCHANGED probe_vars

\* Mutant: it->cycles++ sits inside the loop over the lanes.
end_phase_CountsCycle ==
    /\ pc = "tick"
    /\ sec >= green
    /\ lane_idx' = lane_idx + 1
    /\ cycles' = cycles + 1
    /\ pc' = "phase"
    /\ UNCHANGED <<lanes, cycles_to_run, c, green, sec, exit_status,
                   stats_file, cycles_input, phases, idle_depth, calls, seeded, arrived,
                   typed, log_opened, ticks>>
    /\ UNCHANGED probe_vars

\* run_one_cycle, lines 80 and 74: the phase is over, the next lane is taken.
end_phase ==
    /\ pc = "tick"
    /\ sec >= green
    /\ lane_idx' = lane_idx + 1
    /\ pc' = "phase"
    /\ UNCHANGED <<lanes, cycles, cycles_to_run, c, green, sec, exit_status,
                   stats_file, cycles_input, phases, idle_depth, calls, seeded, arrived,
                   typed, log_opened, ticks>>
    /\ UNCHANGED probe_vars

\* run_one_cycle, lines 74 and 97: all lanes had their green; the cycle is counted
\* and the function returns (its locals are gone).
end_cycle ==
    /\ pc = "phase"
    /\ lane_idx >= LANES
    /\ cycles' = cycles + 1
    /\ lane_idx' = 0
    /\ green' = 0
    /\ sec' = 0
    /\ pc' = "arrive"
    /\ UNCHANGED <<lanes, cycles_to_run, c, exit_status, stats_file, cycles_input,
                   phases, idle_depth, calls, seeded, arrived,
                   typed, log_opened, ticks>>
    /\ UNCHANGED probe_vars

\* random_arrival_between_cycles when the four draws of rand() % 4 are a, then
\* the loop's ++c (line 172).
ArrivalStep(a) ==
    /\ pc = "arrive"
    /\ lanes' = AddArrivals(lanes, a)
    /\ arrived' = [i \in LaneIdx |-> arrived[i] + a[i]]
    /\ calls' = [calls EXCEPT !.random_arrival_between_cycles = @ + 1]
    /\ c' = c + 1
    /\ pc' = "loop"
    /\ UNCHANGED <<cycles, cycles_to_run, lane_idx, green, sec, exit_status,
                   stats_file, cycles_input, phases, idle_depth, seeded,
                   typed, log_opened, ticks>>
    /\ UNCHANGED probe_vars

\* random_arrival_between_cycles: the draws are any four values of rand() % 4.
random_arrival_between_cycles ==
    /\ pc = "arrive"
    /\ \E a \in Arrivals : ArrivalStep(a)

\* Mutant: a log that cannot be opened makes the process fail.
save_statistics_FailsWithoutLog ==
    /\ pc = "stats"
    /\ \E opened \in BOOLEAN :
          /\ stats_file' = IF opened
                           THEN Append(stats_file, StatsRecord(lanes, cycles))
                           ELSE stats_file
          /\ log_opened' = IF opened THEN "opened" ELSE "failed"
          /\ exit_status' = IF opened THEN "EXIT_SUCCESS" ELSE "EXIT_FAILURE"
    /\ pc' = "exit"
    /\ UNCHANGED <<lanes, cycles, cycles_to_run, c, lane_idx, green, sec,
                   cycles_input, phases, idle_depth, calls, seeded, arrived,
                   typed, ticks>>
    /\ UNCHANGED probe_vars

\* save_statistics and the end of main (lines 188-191): the record is appended
\* when the file opens; the process returns 0 either way.
save_statistics ==
    /\ pc = "stats"
    /\ \E opened \in BOOLEAN :
          /\ stats_file' = IF opened
                           THEN Append(stats_file, StatsRecord(lanes, cycles))
                           ELSE stats_file
          /\ log_opened' = IF opened THEN "opened" ELSE "failed"
    /\ pc' = "exit"
    /\ exit_status' = "EXIT_SUCCESS"
    /\ UNCHANGED <<lanes, cycles, cycles_to_run, c, lane_idx, green, sec,
                   cycles_input, phases, idle_depth, calls, seeded, arrived,
                   typed, ticks>>
    /\ UNCHANGED probe_vars

Next ==
    \/ input_vehicle_counts
    \/ read_cycles
    \/ loop_test
    \/ begin_phase
    \/ tick
    \/ end_phase
    \/ end_cycle
    \/ random_arrival_between_cycles
    \/ save_statistics

Spec == Init /\ [][Next]_vars

(***************************************************************************)
(* GreenSpec: calculate_green_time applied to two int arguments, drawn     *)
(* from -MaxW..MaxW and from the values around the int limits and around   *)
(* the first arguments whose 5 + 2 * w does not fit an int.                *)
(***************************************************************************)
GreenInputs ==
    (-MaxW..MaxW)
    \cup {INT_MIN, INT_MIN + 1, INT_MAX - 1, INT_MAX}
    \cup ((-(INT_MAX \div 2) - 3)..(-(INT_MAX \div 2) + 1))
    \cup (((INT_MAX \div 2) - 3)..((INT_MAX \div 2) + 1))

GreenInit ==
    /\ DriverStart(TRUE)
    /\ w1 \in GreenInputs
    /\ w2 \in GreenInputs
    /\ g1 = 0
    /\ g2 = 0
    /\ called = FALSE

apply_green_time ==
    /\ ~called
    /\ g1' \in calculate_green_time(w1)
    /\ g2' \in calculate_green_time(w2)
    /\ called' = TRUE
    /\ UNCHANGED <<w1, w2>>
    /\ UNCHANGED driver_vars

GreenNext == apply_green_time

GreenSpec == GreenInit /\ [][GreenNext]_vars

(***************************************************************************)
(* PhaseSpec: the driver up to the end of lane 0's first green, lane 0      *)
(* seeded with a count from 0..MaxW, from around MAX_GREEN, or from around  *)
(* the first counts whose 5 + 2 * w does not fit an int; the other lanes    *)
(* are seeded empty.                                                       *)
(***************************************************************************)
PhaseInputs ==
    (0..MaxW)
    \cup ((MAX_GREEN - 2)..(MAX_GREEN + 5))
    \cup (((INT_MAX \div 2) - 3)..((INT_MAX \div 2) + 1))
    \cup {INT_MAX - 1, INT_MAX}

PhaseInit == DriverStart(TRUE) /\ ProbeIdle

\* input_vehicle_counts answered with w, 0, 0, 0.
seed_first_lane ==
    /\ pc = "input"
    /\ \E w \in PhaseInputs : InputStep(Typed(<<w, 0, 0, 0>>))

\* main, line 172: the loop test before the first cycle.
first_loop_test == c = 0 /\ loop_test

\* run_one_cycle, i = 0: the green of lane 0 is computed.
first_begin_phase == lane_idx = 0 /\ begin_phase

\* run_one_cycle, i = 0: one second of lane 0's green.
first_tick == lane_idx = 0 /\ tick

\* run_one_cycle, i = 0: lane 0's green is over.
first_end_phase == lane_idx = 0 /\ end_phase

PhaseNext ==
    \/ seed_first_lane
    \/ read_cycles
    \/ first_loop_test
    \/ first_begin_phase
    \/ first_tick
    \/ first_end_phase

PhaseSpec == PhaseInit /\ [][PhaseNext]_vars

(***************************************************************************)
(* Claims about calculate_green_time, checked under GreenSpec.             *)
(***************************************************************************)

\* C1: for every int argument, the value calculate_green_time returns lies in
\* [BASE_GREEN, MAX_GREEN] = [5, 40].
C1_ResultInBaseMaxRange ==
    called => /\ g1 >= BASE_GREEN /\ g1 <= MAX_GREEN
              /\ g2 >= BASE_GREEN /\ g2 <= MAX_GREEN

\* C2: for every argument w >= 0 the result is min(40, 5 + 2*w), which is 40 when
\* w > 17 and 5 + 2*w otherwise; so 0 gives 5, 10 gives 25 and 20 gives 40.
C2_ResultIsCappedFormula ==
    (called /\ w1 >= 0) =>
        /\ g1 = IF w1 > (MAX_GREEN - BASE_GREEN) \div 2
                THEN MAX_GREEN ELSE BASE_GREEN + 2 * w1
        /\ (w1 = 0 => g1 = 5)
        /\ (w1 = 10 => g1 = 25)
        /\ (w1 = 20 => g1 = 40)

\* C3: calculate_green_time is monotonically non-decreasing: w1 <= w2 implies
\* that the result for w1 is at most the result for w2.
C3_Monotone == (called /\ w1 <= w2) => g1 <= g2

(***************************************************************************)
(* Claims about the simulation, checked under Spec.                        *)
(***************************************************************************)
Vehicles == [i \in LaneIdx |-> lanes[i].vehicles]
Served == [i \in LaneIdx |-> lanes[i].vehicles_served]
WaitSecs == [i \in LaneIdx |-> lanes[i].total_wait_secs]
Counts(q) == [i \in LaneIdx |-> q[i + 1]]

\* C4: in every reachable state (after the lanes are seeded, after every tick of
\* run_one_cycle and after every random_arrival_between_cycles) each of the 4
\* lanes has vehicles >= 0.
C4_VehiclesNonNegative == \A i \in LaneIdx : lanes[i].vehicles >= 0

\* C4 witness: arrivals were injected after a cycle in which a lane that let
\* vehicles pass was emptied and then idled through further green seconds.
C4_Witness ==
    /\ pc = "loop"
    /\ calls.random_arrival_between_cycles > 0
    /\ \E i \in LaneIdx : seeded[i] > 0 /\ lanes[i].vehicles_served = seeded[i]
                          /\ lanes[i].vehicles = arrived[i]

\* C5: no step (tick, end of phase or cycle, arrival injection, or any other)
\* lowers a lane's vehicles_served or total_wait_secs.
C5_AccumulatorsNeverDecrease ==
    [][\A i \in LaneIdx :
          /\ lanes'[i].vehicles_served >= lanes[i].vehicles_served
          /\ lanes'[i].total_wait_secs >= lanes[i].total_wait_secs]_vars

\* C5 witness: both accumulators have grown and arrivals were injected after
\* the cycle.
C5_Witness ==
    /\ calls.random_arrival_between_cycles > 0
    /\ \E i \in LaneIdx : lanes[i].vehicles_served > 0 /\ lanes[i].total_wait_secs > 0

\* C6: from lane counts [2,0,5,1] and zero accumulators the first run_one_cycle
\* has one outcome: lane 0's green lasts 9 ticks, after which lane 0 has
\* vehicles 0 and vehicles_served 2 and lanes 1, 2, 3 have total_wait_secs 0, 45
\* and 9; the cycle ends with vehicles [0,0,0,0], vehicles_served [2,0,5,1],
\* total_wait_secs [0,0,70,29] and cycles 1.
C6_ScenarioTrace ==
    seeded = Counts(Scenario) =>
        /\ (pc = "tick" /\ cycles = 0 /\ lane_idx = 0) => green = 9
        /\ (pc = "tick" /\ cycles = 0 /\ lane_idx = 0 /\ sec >= green) =>
              /\ sec = 9
              /\ lanes[0].vehicles = 0
              /\ lanes[0].vehicles_served = 2
              /\ WaitSecs = Counts(<<0, 0, 45, 9>>)
        /\ (pc = "arrive" /\ calls.run_one_cycle = 1) =>
              /\ Vehicles = Counts(<<0, 0, 0, 0>>)
              /\ Served = Counts(<<2, 0, 5, 1>>)
              /\ WaitSecs = Counts(<<0, 0, 70, 29>>)
              /\ cycles = 1

\* C6 witness: the first cycle of the scenario has just returned.
C6_Witness ==
    /\ seeded = Counts(Scenario)
    /\ pc = "arrive"
    /\ calls.run_one_cycle = 1
    /\ cycles = 1

\* The lane indices 0 .. n-1 in ascending order.
Ascending(n) == [k \in 1..n |-> k - 1]

\* C7: within one run_one_cycle the lanes get green in the order 0, 1, 2, 3,
\* each exactly once, one lane at a time, and cycles grows by exactly 1 only
\* once lane 3's phase is over: it is unchanged by every tick and every change
\* of phase.
C7_FixedOrderThenCount ==
    /\ [](/\ pc = "tick" => lane_idx \in LaneIdx /\ phases = Ascending(lane_idx + 1)
          /\ pc = "phase" => phases = Ascending(lane_idx)
          /\ pc = "arrive" => phases = Ascending(LANES))
    /\ [][/\ pc = "tick" =>
                /\ cycles' = cycles
                /\ \A j \in LaneIdx :
                      lanes'[j].vehicles # lanes[j].vehicles => j = phases[Len(phases)]
          /\ cycles' # cycles =>
                /\ cycles' = cycles + 1
                /\ pc = "phase" /\ pc' = "arrive"
                /\ lane_idx = LANES
                /\ phases = Ascending(LANES)]_vars

\* C7 witness: a cycle has been counted after the four phases, the last of
\* which let a vehicle pass.
C7_Witness ==
    /\ pc = "arrive"
    /\ cycles = 1
    /\ phases = <<0, 1, 2, 3>>
    /\ lanes[3].vehicles_served > 0

\* C8: a tick of lane i's green adds to every other lane's total_wait_secs
\* exactly that lane's vehicles (nothing when it is empty) and leaves lane i's
\* total_wait_secs alone; so total_wait_secs is always the sum of the lane's
\* queue depth over the ticks in which it was not green.
C8_WaitIsIdleQueueDepth ==
    /\ [][(pc = "tick" /\ sec' = sec + 1) =>
             \A j \in LaneIdx :
                lanes'[j].total_wait_secs =
                   IF j = lane_idx THEN lanes[j].total_wait_secs
                   ELSE lanes[j].total_wait_secs + lanes[j].vehicles]_vars
    /\ [](\A j \in LaneIdx : lanes[j].total_wait_secs = idle_depth[j])

\* C8 witness: in a green phase, after at least two ticks, one waiting lane
\* holds several vehicles and has accrued that many per tick, another is empty.
C8_Witness ==
    /\ pc = "tick"
    /\ sec >= 2
    /\ \E j, k \in LaneIdx :
          /\ j # lane_idx /\ k # lane_idx
          /\ lanes[j].vehicles > 1
          /\ lanes[j].total_wait_secs = sec * lanes[j].vehicles
          /\ lanes[k].vehicles = 0 /\ lanes[k].total_wait_secs = 0

\* C9: random_arrival_between_cycles adds to each lane's vehicles an amount in
\* {0,1,2,3}, every combination of the four amounts being possible (each is a
\* draw the function can make, and the step with that draw is enabled and adds
\* exactly these amounts), and leaves every vehicles_served and
\* total_wait_secs and cycles unchanged.
C9_ArrivalsIndependentAndFramed ==
    /\ [][pc = "arrive" =>
             /\ \A i \in LaneIdx :
                   /\ lanes'[i].vehicles - lanes[i].vehicles \in 0..3
                   /\ lanes'[i].vehicles_served = lanes[i].vehicles_served
                   /\ lanes'[i].total_wait_secs = lanes[i].total_wait_secs
             /\ cycles' = cycles]_vars
    /\ [](pc = "arrive" =>
             \A a \in [LaneIdx -> 0..3] :
                /\ a \in Arrivals
                /\ ENABLED (/\ ArrivalStep(a)
                            /\ \A i \in LaneIdx :
                                  lanes'[i].vehicles = lanes[i].vehicles + a[i]))

\* C9 witness: the first injection gave the four lanes the four different
\* amounts 3, 0, 1, 2.
C9_Witness ==
    /\ pc = "loop"
    /\ calls.random_arrival_between_cycles = 1
    /\ arrived = Counts(<<3, 0, 1, 2>>)
    /\ \A i \in LaneIdx : lanes[i].vehicles >= arrived[i]

\* C10: when the cycle count is not parsed or is <= 0, the process has exited
\* with a failure status and nothing was simulated: run_one_cycle and
\* random_arrival_between_cycles were never called, cycles is 0 and no
\* statistics record was appended.
C10_InvalidCycleCountAborts ==
    cycles_input \in {"unparsed", "nonpositive"} =>
        /\ pc = "exit"
        /\ exit_status = "EXIT_FAILURE"
        /\ calls = NoCalls
        /\ cycles = 0
        /\ stats_file = <<>>
        /\ ~ENABLED Next

\* C10 witness: the lanes were seeded, then a cycle count of 0 was typed.
C10_Witness ==
    /\ cycles_input = "nonpositive"
    /\ cycles_to_run = 0
    /\ seeded = Counts(Scenario)
    /\ exit_status = "EXIT_FAILURE"

C12_NoLogNoRecordStillSuccess ==
    [][(pc = "stats" /\ log_opened' = "failed") =>
          /\ stats_file' = stats_file
          /\ lanes' = lanes
          /\ cycles' = cycles
          /\ pc' = "exit"
          /\ exit_status' = "EXIT_SUCCESS"]_vars

\* C12 witness: the process has exited after a cycle whose log could not be
\* opened, and the file is still empty.
C12_Witness ==
    /\ pc = "exit"
    /\ log_opened = "failed"
    /\ cycles >= 1
    /\ stats_file = <<>>
    /\ exit_status = "EXIT_SUCCESS"

\* C13: the record save_statistics appends holds the sum of vehicles_served
\* and the sum of total_wait_secs over the four lanes, with an average of
\* exactly 0 when nothing was served and total_wait_secs / total_served
\* otherwise; no lane counter and no cycle counter is modified.
C13_StatisticsReadOnlyProjection ==
    [][pc = "stats" =>
          /\ lanes' = lanes
          /\ cycles' = cycles
          /\ log_opened' = "opened" =>
                LET rec == stats_file'[Len(stats_file')]
                    served == lanes[0].vehicles_served + lanes[1].vehicles_served
                              + lanes[2].vehicles_served + lanes[3].vehicles_served
                    wait == lanes[0].total_wait_secs + lanes[1].total_wait_secs
                            + lanes[2].total_wait_secs + lanes[3].total_wait_secs
                IN  /\ Len(stats_file') = Len(stats_file) + 1
                    /\ rec.cycles = cycles
                    /\ rec.total_served = served
                    /\ rec.total_wait_secs = wait
                    /\ served = 0 => rec.avg_wait_per_vehicle = <<0, 1>>
                    /\ served > 0 => rec.avg_wait_per_vehicle = <<wait, served>>]_vars

\* C13 witness: a record was written whose last lane served vehicles and
\* whose average is a proper quotient.
C13_Witness ==
    /\ pc = "exit"
    /\ log_opened = "opened"
    /\ lanes[3].vehicles_served > 0
    /\ stats_file[1].total_served > lanes[3].vehicles_served
    /\ stats_file[1].total_wait_secs > 0
    /\ stats_file[1].avg_wait_per_vehicle[2] = stats_file[1].total_served

\* C14: before the first run_one_cycle the state is the seeded one: each lane
\* holds the count typed for it (a negative one stored as 0), nothing was
\* served, no wait was accrued and cycles is 0.
C14_SeededStateBeforeFirstCycle ==
    /\ pc = "read_cycles" =>
          \A i \in LaneIdx :
             /\ typed[i].ok
             /\ lanes[i].vehicles = (IF typed[i].val < 0 THEN 0 ELSE typed[i].val)
    /\ (calls.run_one_cycle = 0 /\ pc # "input") =>
          /\ cycles = 0
          /\ \A i \in LaneIdx :
                /\ lanes[i].vehicles = seeded[i]
                /\ lanes[i].vehicles_served = 0
                /\ lanes[i].total_wait_secs = 0

\* C14 witness: the four counts were read, one of them negative, and its lane
\* holds 0.
C14_Witness ==
    /\ pc = "read_cycles"
    /\ \E i \in LaneIdx : typed[i].val < 0 /\ lanes[i].vehicles = 0
    /\ calls.run_one_cycle = 0

\* C15: a second of lane i's green moves one vehicle from vehicles to
\* vehicles_served when the lane holds one, and leaves both as they are when
\* the lane is empty.
C15_TickPassesOneOrNone ==
    [][(pc = "tick" /\ sec' = sec + 1) =>
          LET before == lanes[lane_idx]
              after == lanes'[lane_idx]
          IN  IF before.vehicles > 0
              THEN /\ after.vehicles = before.vehicles - 1
                   /\ after.vehicles_served = before.vehicles_served + 1
              ELSE /\ after.vehicles = before.vehicles
                   /\ after.vehicles_served = before.vehicles_served]_vars

\* C15 witness: in the first cycle the green lane served its whole queue and
\* then spent seconds of green empty.
C15_Witness ==
    /\ pc = "tick"
    /\ cycles = 0
    /\ lanes[lane_idx].vehicles = 0
    /\ lanes[lane_idx].vehicles_served > 0
    /\ sec > lanes[lane_idx].vehicles_served

\* C16: while lane i is green, vehicles and vehicles_served of every other
\* lane stay as they are; only lane i's vehicles and vehicles_served and the
\* other lanes' total_wait_secs change.
C16_OnlyGreenLaneDischarges ==
    [][(pc = "phase" \/ pc = "tick") =>
          \A j \in LaneIdx :
             IF j = lane_idx
             THEN lanes'[j].total_wait_secs = lanes[j].total_wait_secs
             ELSE /\ lanes'[j].vehicles = lanes[j].vehicles
                  /\ lanes'[j].vehicles_served = lanes[j].vehicles_served]_vars

\* C16 witness: lane 0's green is over, it served vehicles, and lane 2 still
\* holds its whole seeded queue, having accrued wait.
C16_Witness ==
    /\ pc = "tick"
    /\ lane_idx = 0
    /\ sec = green
    /\ lanes[0].vehicles_served > 0
    /\ seeded[2] > 0
    /\ lanes[2].vehicles = seeded[2]
    /\ lanes[2].vehicles_served = 0
    /\ lanes[2].total_wait_secs > 0

\* C17: the green used in a phase is between BASE_GREEN and MAX_GREEN,
\* whatever count the lane holds, so a phase ends after at most MAX_GREEN
\* seconds and a whole run_one_cycle after between 20 and 160 seconds.
C17_GreenBoundedCycleTerminates ==
    /\ pc = "input" =>
          \A w \in GreenInputs : \A g \in calculate_green_time(w) :
             ClampGreen(g) \in BASE_GREEN..MAX_GREEN
    /\ pc = "tick" =>
          /\ green \in BASE_GREEN..MAX_GREEN
          /\ sec \in 0..green
          /\ ENABLED (tick \/ end_phase)
    /\ (pc = "phase" \/ pc = "tick") => ticks <= LANES * MAX_GREEN
    /\ pc = "arrive" => ticks \in (LANES * BASE_GREEN)..(LANES * MAX_GREEN)

\* C17 witness: a cycle is over in which a seeded queue longer than MAX_GREEN
\* had its green capped, the cycle taking more than the minimum 20 seconds.
C17_Witness ==
    /\ pc = "arrive"
    /\ \E i \in LaneIdx : seeded[i] > MAX_GREEN
    /\ ticks > LANES * BASE_GREEN
    /\ ticks <= LANES * MAX_GREEN

\* C18: vehicles + vehicles_served of a lane is left as it is by every second
\* of green and by run_one_cycle as a whole, and always equals the seeded
\* count plus the arrivals injected so far.
C18_Conservation ==
    /\ [](pc # "input" =>
             \A i \in LaneIdx :
                lanes[i].vehicles + lanes[i].vehicles_served
                   = seeded[i] + arrived[i])
    /\ [][(pc = "phase" \/ pc = "tick") =>
             \A i \in LaneIdx :
                lanes'[i].vehicles + lanes'[i].vehicles_served
                   = lanes[i].vehicles + lanes[i].vehicles_served]_vars

\* C18 witness: a lane seeded with vehicles has served some, received
\* arrivals, and still holds some.
C18_Witness ==
    \E i \in LaneIdx :
       /\ seeded[i] > 0
       /\ arrived[i] > 0
       /\ lanes[i].vehicles_served > 0
       /\ lanes[i].vehicles > 0
       /\ cycles >= 1

C19_DrainGuarantee ==
    (pc = "phase" /\ lane_idx = 1) =>
        LET w == seeded[0]
        IN  /\ lanes[0].vehicles = (IF w > MAX_GREEN THEN w - MAX_GREEN ELSE 0)
            /\ lanes[0].vehicles_served = (IF w > MAX_GREEN THEN MAX_GREEN ELSE w)
            /\ w <= MAX_GREEN => lanes[0].vehicles = 0

=============================================================================
